---- MODULE Spec2Model ----
(***************************************************************************)
(* MetronomiQ (src/main.py): the Metronome main window and its             *)
(* TempoValidator, as a state machine over the window's fields and the     *)
(* properties of its widgets that the handlers read or write.              *)
(*                                                                         *)
(* Texts (Python str) are sequences of one-character strings, so that      *)
(* str(int) and int(str) are computed digit by digit: "300" is             *)
(* <<"3","0","0">> and the empty text is <<>>.  Labels that are only ever  *)
(* set to literals (the marking, the button caption, the mode indicator)   *)
(* are TLA+ strings.  List indices are 0-based as in the source; tempi is  *)
(* a TLA+ sequence, so the source's tempi[i] is tempi[i + 1] here.         *)
(***************************************************************************)
EXTENDS Integers, Sequences, FiniteSets, TLC

(***************************************************************************)
(* Bounds of the model.                                                    *)
(***************************************************************************)
\* The user types the decimal text of 0, TypedStride, 2*TypedStride, ...
\* up to MaxTyped (and the boundary values of the validator's range).
TypedStride == 15
MaxTyped == 315
\* The typed text may carry up to this many leading zeros.
MaxLeadingZeros == 1
\* The tick sound is counted up to this many plays.
MaxPlays == 2
\* fixup is applied to the decimal text of every n in -MaxFixupNeg..MaxFixupPos.
MaxFixupNeg == 30
MaxFixupPos == 330

(***************************************************************************)
(* Program constants.                                                      *)
(***************************************************************************)
\* TempoValidator(20, 300)
ValidatorBottom == 20
ValidatorTop == 300
\* 60_000 // self.__current_tempo
MillisPerMinute == 60000
\* QTimeLine's update interval before the first setUpdateInterval
TimeLineDefaultInterval == 40

(***************************************************************************)
(* Python's str(int) and int(str) on decimal texts.                        *)
(***************************************************************************)
DigitChar == <<"0", "1", "2", "3", "4", "5", "6", "7", "8", "9">>

DigitVal(c) == CHOOSE d \in 0..9 : DigitChar[d + 1] = c

RECURSIVE NatStr(_)
NatStr(n) == IF n < 10 THEN <<DigitChar[n + 1]>>
             ELSE Append(NatStr(n \div 10), DigitChar[(n % 10) + 1])

\* str(n)
Str(n) == IF n < 0 THEN <<"-">> \o NatStr(-n) ELSE NatStr(n)

RECURSIVE NatVal(_)
NatVal(s) == IF Len(s) = 1 THEN DigitVal(s[1])
             ELSE 10 * NatVal(SubSeq(s, 1, Len(s) - 1)) + DigitVal(s[Len(s)])

\* int(s), for s an optional sign followed by at least one digit
PyInt(s) == IF s[1] = "-" THEN -NatVal(Tail(s))
            ELSE IF s[1] = "+" THEN NatVal(Tail(s))
            ELSE NatVal(s)

(***************************************************************************)
(* TempoValidator.fixup.  The loop is unrolled as a recursion that also    *)
(* counts how many times its body replaced the text.                       *)
(***************************************************************************)
RECURSIVE fixup_loop(_, _, _, _)
\* fixup's loop with the two replacement texts swapped
fixup_loop_swapped(s, b, t, k) ==
    LET n == PyInt(s) IN
    IF b <= n /\ n <= t THEN [s |-> s, replacements |-> k]
    ELSE fixup_loop(IF n < b THEN Str(t) ELSE Str(b), b, t, k + 1)

fixup_loop(s, b, t, k) ==
    LET n == PyInt(s) IN
    IF b <= n /\ n <= t THEN [s |-> s, replacements |-> k]
    ELSE fixup_loop(IF n < b THEN Str(b) ELSE Str(t), b, t, k + 1)

fixup_run(s, b, t) == fixup_loop(IF s = <<>> THEN Str(b) ELSE s, b, t, 0)

\* fixup as if the loop clamped nothing
fixup_unclamped(s) == IF s = <<>> THEN Str(ValidatorBottom) ELSE s

fixup(s) == fixup_run(s, ValidatorBottom, ValidatorTop).s

(***************************************************************************)
(* Metronome.__tempi and bisect_left.                                      *)
(***************************************************************************)
\* list(range(start, stop, step)), step > 0
PyRange(start, stop, step) ==
    [i \in 1..((stop - start + step - 1) \div step) |-> start + (i - 1) * step]

tempi == PyRange(40, 61, 2) \o PyRange(63, 73, 3) \o PyRange(76, 121, 4)
         \o PyRange(126, 145, 6) \o PyRange(152, 209, 8)

RECURSIVE bisect_search(_, _, _, _)
\* the search of bisect_right: a[mid] <= x moves lo
bisect_search_right(a, x, lo, hi) ==
    IF lo < hi
    THEN LET mid == (lo + hi) \div 2 IN
         IF a[mid + 1] <= x THEN bisect_search(a, x, mid + 1, hi)
         ELSE bisect_search(a, x, lo, mid)
    ELSE lo

bisect_search(a, x, lo, hi) ==
    IF lo < hi
    THEN LET mid == (lo + hi) \div 2 IN
         IF a[mid + 1] < x THEN bisect_search(a, x, mid + 1, hi)
         ELSE bisect_search(a, x, lo, mid)
    ELSE lo

bisect_left(a, x) == bisect_search(a, x, 0, Len(a))

(***************************************************************************)
(* The validator of the text field, TempoValidator(20, 300): Qt's          *)
(* QIntValidator.validate on texts made of digits.  A text it calls        *)
(* Invalid cannot be typed; on Return or focus loss the field runs fixup   *)
(* unless the text is already Acceptable, and emits editingFinished.       *)
(***************************************************************************)
IntValidate(s, b, t) ==
    IF s = <<>> THEN "Intermediate"
    ELSE LET entered == NatVal(s) IN
         IF b <= entered /\ entered <= t THEN "Acceptable"
         ELSE IF entered > t /\ -entered < b /\ Len(s) > Len(Str(t)) THEN "Invalid"
         ELSE "Intermediate"

validate(s) == IntValidate(s, ValidatorBottom, ValidatorTop)

(***************************************************************************)
(* The state: the fields of Metronome and the widget properties the        *)
(* handlers use.                                                           *)
(***************************************************************************)
VARIABLES
    current_tempo,          \* self.__current_tempo
    playing,                \* self.__playing
    mode,                   \* self.__mode: "maelzel" or "precise"
    slider_value,           \* self.__slider.value()
    slider_enabled,         \* self.__slider.isEnabled()
    slider_visible,         \* self.__slider (and its min/max labels) visible
    tempo_input_text,       \* self.__tempo_input.text()
    tempo_input_enabled,    \* self.__tempo_input.isEnabled()
    tempo_input_visible,    \* self.__tempo_input.isVisible()
    tempo_prompt_visible,   \* self.__tempo_prompt.isVisible()
    tempo_indicator,        \* self.__tempo_indicator.text()
    traditional_marking,    \* self.__traditional_marking.text()
    mode_indicator,         \* self.__mode_indicator.text()
    start_stop_button,      \* self.__start_stop_button.text()
    timer_state,            \* self.__timer.state(): "NotRunning" or "Running"
    timer_interval,         \* self.__timer.updateInterval()
    timer_position,         \* self.__timer's current value: "start" (the value
                            \* of time 0) or "moved" (any other value)
    plays,                  \* calls of self.__sound_player.play() so far
    fx_empty,               \* the fixup under test is called on the empty text
    fx_n,                   \* ... or on str(fx_n)
    fx_text,                \* the argument of the fixup under test
    fx_result,              \* what it returned, and the loop's replacements
    fx_pc                   \* "idle", "called" or "returned"

window_vars == <<current_tempo, playing, mode, slider_value, slider_enabled,
                 slider_visible, tempo_input_text, tempo_input_enabled,
                 tempo_input_visible, tempo_prompt_visible, tempo_indicator,
                 traditional_marking, mode_indicator, start_stop_button,
                 timer_state, timer_interval, timer_position,
                 plays>>

fx_vars == <<fx_empty, fx_n, fx_text, fx_result, fx_pc>>

vars == <<window_vars, fx_vars>>

\* The window as one value, so that a handler is a function from the window
\* before it to the window after it.
Self ==
    [current_tempo |-> current_tempo, playing |-> playing, mode |-> mode,
     slider_value |-> slider_value, slider_enabled |-> slider_enabled,
     slider_visible |-> slider_visible, tempo_input_text |-> tempo_input_text,
     tempo_input_enabled |-> tempo_input_enabled,
     tempo_input_visible |-> tempo_input_visible,
     tempo_prompt_visible |-> tempo_prompt_visible,
     tempo_indicator |-> tempo_indicator,
     traditional_marking |-> traditional_marking,
     mode_indicator |-> mode_indicator, start_stop_button |-> start_stop_button,
     timer_state |-> timer_state, timer_interval |-> timer_interval,
     timer_position |-> timer_position,
     plays |-> plays]

Becomes(w) ==
    /\ current_tempo' = w.current_tempo
    /\ playing' = w.playing
    /\ mode' = w.mode
    /\ slider_value' = w.slider_value
    /\ slider_enabled' = w.slider_enabled
    /\ slider_visible' = w.slider_visible
    /\ tempo_input_text' = w.tempo_input_text
    /\ tempo_input_enabled' = w.tempo_input_enabled
    /\ tempo_input_visible' = w.tempo_input_visible
    /\ tempo_prompt_visible' = w.tempo_prompt_visible
    /\ tempo_indicator' = w.tempo_indicator
    /\ traditional_marking' = w.traditional_marking
    /\ mode_indicator' = w.mode_indicator
    /\ start_stop_button' = w.start_stop_button
    /\ timer_state' = w.timer_state
    /\ timer_interval' = w.timer_interval
    /\ timer_position' = w.timer_position
    /\ plays' = w.plays

(***************************************************************************)
(* Metronome's methods.                                                    *)
(***************************************************************************)
\* __Mode.__str__
ModeStr(m) == IF m = "maelzel" THEN "Maelzel's metronome" ELSE "Precise tempo"

\* f'Mode: {self.__mode}'
ModeIndicatorText(m) == "Mode: " \o ModeStr(m)

get_marking_of(tempo) ==
    IF tempo <= 24 THEN "Larghissimo"
    ELSE IF tempo <= 40 THEN "Grave"
    ELSE IF tempo <= 60 THEN "Largo"
    ELSE IF tempo <= 66 THEN "Largetto"
    ELSE IF tempo <= 76 THEN "Adagio"
    ELSE IF tempo <= 108 THEN "Andante"
    ELSE IF tempo <= 120 THEN "Moderato"
    ELSE IF tempo <= 168 THEN "Allegro"
    ELSE IF tempo <= 200 THEN "Presto"
    ELSE "Prestissimo"

\* self.__get_marking()
get_marking(w) == get_marking_of(w.current_tempo)

slider_minimum == 0
slider_maximum == Len(tempi) - 1

RECURSIVE update_tempo(_)
RECURSIVE slider_setValue(_, _)

\* QSlider.setValue: the value is bounded to the slider's range, and
\* valueChanged (connected to __update_tempo) is emitted when it changes.
slider_setValue(w, v) ==
    LET bounded == IF v < slider_minimum THEN slider_minimum
                   ELSE IF v > slider_maximum THEN slider_maximum
                   ELSE v
    IN IF bounded = w.slider_value THEN w
       ELSE update_tempo([w EXCEPT !.slider_value = bounded])

\* __update_tempo without the setText of the Maelzel case
update_tempo_keeps_text(w) ==
    LET w1 == IF w.mode = "maelzel"
              THEN LET t == tempi[w.slider_value + 1] IN
                   [w EXCEPT !.current_tempo = t]
              ELSE LET t == IF w.tempo_input_text = <<>> THEN tempi[1]
                            ELSE PyInt(w.tempo_input_text)
                   IN slider_setValue([w EXCEPT !.current_tempo = t],
                                      bisect_left(tempi, t))
    IN [w1 EXCEPT !.tempo_indicator = Str(w1.current_tempo),
                  !.traditional_marking = get_marking(w1)]

\* __update_tempo refreshing the two labels from the tempo it was called with
update_tempo_stale_labels(w) ==
    LET w1 == IF w.mode = "maelzel"
              THEN LET t == tempi[w.slider_value + 1] IN
                   [w EXCEPT !.current_tempo = t, !.tempo_input_text = Str(t)]
              ELSE LET t == IF w.tempo_input_text = <<>> THEN tempi[1]
                            ELSE PyInt(w.tempo_input_text)
                   IN slider_setValue([w EXCEPT !.current_tempo = t],
                                      bisect_left(tempi, t))
    IN [w1 EXCEPT !.tempo_indicator = Str(w.current_tempo),
                  !.traditional_marking = get_marking(w)]

update_tempo(w) ==
    LET w1 == IF w.mode = "maelzel"
              THEN LET t == tempi[w.slider_value + 1] IN
                   [w EXCEPT !.current_tempo = t, !.tempo_input_text = Str(t)]
              ELSE LET t == IF w.tempo_input_text = <<>> THEN tempi[1]
                            ELSE PyInt(w.tempo_input_text)
                   IN slider_setValue([w EXCEPT !.current_tempo = t],
                                      bisect_left(tempi, t))
    IN [w1 EXCEPT !.tempo_indicator = Str(w1.current_tempo),
                  !.traditional_marking = get_marking(w1)]

switch_mode(w) ==
    LET w1 == IF w.mode = "maelzel"
              THEN [w EXCEPT !.mode = "precise",
                             !.tempo_input_visible = TRUE,
                             !.tempo_input_enabled = TRUE,
                             !.tempo_prompt_visible = TRUE,
                             !.slider_enabled = FALSE,
                             !.slider_visible = FALSE]
              ELSE [w EXCEPT !.mode = "maelzel",
                             !.tempo_input_visible = FALSE,
                             !.tempo_input_enabled = FALSE,
                             !.tempo_prompt_visible = FALSE,
                             !.slider_enabled = TRUE,
                             !.slider_visible = TRUE]
        w2 == update_tempo(w1)
    IN [w2 EXCEPT !.mode_indicator = ModeIndicatorText(w2.mode)]

\* the interval in seconds instead of milliseconds
tick_interval_seconds(tempo) == 60 \div tempo

\* 60_000 // self.__current_tempo
tick_interval(tempo) == MillisPerMinute \div tempo

\* self.__timer.valueChanged.connect(self.__sound_player.play)
timer_valueChanged(w) == [w EXCEPT !.plays = w.plays + 1]

\* QTimeLine.start: the time line runs and is set back to time 0, which
\* signals valueChanged when its value was elsewhere (a restart after the
\* time line had advanced).
timer_start(w) ==
    LET w1 == [w EXCEPT !.timer_state = "Running", !.timer_position = "start"]
    IN IF w.timer_position # "start" THEN timer_valueChanged(w1) ELSE w1

\* QTimeLine.stop: the time line stops where it is.
timer_stop(w) == [w EXCEPT !.timer_state = "NotRunning"]

\* The running time line advances to another value and signals valueChanged;
\* the new value is the one of time 0 again when a loop ends exactly there.
timer_timerEvent(w, position) ==
    timer_valueChanged([w EXCEPT !.timer_position = position])

\* __start_stop_metronome without self.__timer.stop()
start_stop_metronome_no_stop(w) ==
    IF ~w.playing
    THEN LET w1 == [w EXCEPT !.start_stop_button = "Stop",
                             !.slider_enabled = FALSE,
                             !.timer_interval = tick_interval(w.current_tempo)]
             w2 == timer_start(w1)
         IN [w2 EXCEPT !.playing = TRUE]
    ELSE LET w1 == [w EXCEPT !.start_stop_button = "Start",
                             !.slider_enabled = TRUE]
         IN [w1 EXCEPT !.playing = FALSE]

start_stop_metronome(w) ==
    IF ~w.playing
    THEN LET w1 == [w EXCEPT !.start_stop_button = "Stop",
                             !.slider_enabled = FALSE,
                             !.timer_interval = tick_interval(w.current_tempo)]
             w2 == timer_start(w1)
         IN [w2 EXCEPT !.playing = TRUE]
    ELSE LET w1 == [w EXCEPT !.start_stop_button = "Start",
                             !.slider_enabled = TRUE]
             w2 == timer_stop(w1)
         IN [w2 EXCEPT !.playing = FALSE]

\* The text field on Return or focus loss, holding the typed text raw:
\* fixup unless the text is acceptable, then editingFinished, which is
\* connected to __update_tempo.
tempo_input_editingFinished(w, raw) ==
    LET text == IF validate(raw) = "Acceptable" THEN raw ELSE fixup(raw)
    IN update_tempo([w EXCEPT !.tempo_input_text = text])

(***************************************************************************)
(* Metronome.__init__: the window after construction.                      *)
(***************************************************************************)
InitWindow ==
    /\ current_tempo = tempi[1]
    /\ playing = FALSE
    /\ mode = "maelzel"
    /\ slider_value = 0
    /\ slider_enabled = TRUE
    /\ slider_visible = TRUE
    /\ tempo_input_text = Str(tempi[1])
    /\ tempo_input_enabled = FALSE
    /\ tempo_input_visible = FALSE
    /\ tempo_prompt_visible = FALSE
    /\ tempo_indicator = Str(tempi[1])
    /\ traditional_marking = get_marking_of(tempi[1])
    /\ mode_indicator = ModeIndicatorText("maelzel")
    /\ start_stop_button = "Start"
    /\ timer_state = "NotRunning"
    /\ timer_interval = TimeLineDefaultInterval
    /\ timer_position = "start"
    /\ plays = 0

FxIdle ==
    /\ fx_empty = FALSE
    /\ fx_n = 0
    /\ fx_text = <<>>
    /\ fx_result = [s |-> <<>>, replacements |-> 0]
    /\ fx_pc = "idle"

Init == InitWindow /\ FxIdle

(***************************************************************************)
(* What the user can type into the text field.                             *)
(***************************************************************************)
TypedValues ==
    {n \in 0..MaxTyped : n % TypedStride = 0}
    \cup {ValidatorBottom - 1, ValidatorBottom, ValidatorTop, ValidatorTop + 1}

RECURSIVE ZeroPad(_, _)
ZeroPad(s, k) == IF k = 0 THEN s ELSE <<"0">> \o ZeroPad(s, k - 1)

TypedTexts ==
    {<<>>} \cup {ZeroPad(Str(n), k) : n \in TypedValues, k \in 0..MaxLeadingZeros}

(***************************************************************************)
(* The events.                                                             *)
(***************************************************************************)
\* The user drags the slider to index i.
SliderMoved(i) ==
    /\ slider_enabled /\ slider_visible
    /\ i # slider_value
    /\ Becomes(slider_setValue(Self, i))
    /\ UNCHANGED fx_vars

\* The user leaves the text field (or presses Return) with raw typed in it.
EditingFinished(raw) ==
    /\ tempo_input_enabled /\ tempo_input_visible
    /\ validate(raw) # "Invalid"
    /\ Becomes(tempo_input_editingFinished(Self, raw))
    /\ UNCHANGED fx_vars

\* File > Switch mode, or Ctrl+M.
SwitchMode ==
    /\ Becomes(switch_mode(Self))
    /\ UNCHANGED fx_vars

\* The Start/Stop button, or Space.
StartStop ==
    /\ Becomes(start_stop_metronome(Self))
    /\ UNCHANGED fx_vars

\* The running time line advances and signals valueChanged.
Tick(position) ==
    /\ timer_state = "Running"
    /\ plays < MaxPlays
    /\ ~(timer_position = "start" /\ position = "start")
    /\ Becomes(timer_timerEvent(Self, position))
    /\ UNCHANGED fx_vars

Next ==
    \/ \E i \in slider_minimum..slider_maximum : SliderMoved(i)
    \/ \E raw \in TypedTexts : EditingFinished(raw)
    \/ SwitchMode
    \/ StartStop
    \/ \E position \in {"start", "moved"} : Tick(position)

Spec == Init /\ [][Next]_vars

(***************************************************************************)
(* TempoValidator.fixup on its own: called on the empty text or on str(n). *)
(***************************************************************************)
InitFixup ==
    /\ InitWindow
    /\ fx_empty \in BOOLEAN
    /\ fx_n \in -MaxFixupNeg..MaxFixupPos
    /\ fx_empty => fx_n = 0
    /\ fx_text = IF fx_empty THEN <<>> ELSE Str(fx_n)
    /\ fx_result = [s |-> <<>>, replacements |-> 0]
    /\ fx_pc = "called"

FixupReturns ==
    /\ fx_pc = "called"
    /\ fx_result' = fixup_run(fx_text, ValidatorBottom, ValidatorTop)
    /\ fx_pc' = "returned"
    /\ UNCHANGED <<fx_empty, fx_n, fx_text, window_vars>>

NextFixup == FixupReturns

SpecFixup == InitFixup /\ [][NextFixup]_vars

(***************************************************************************)
(* The properties.                                                         *)
(***************************************************************************)
\* The entries of the tempo table.
TempoEntries == {tempi[i] : i \in 1..Len(tempi)}

\* The smallest entry of the table that is >= t, or the last entry.
NearestAtOrAbove(t) ==
    IF \E e \in TempoEntries : e >= t
    THEN CHOOSE e \in TempoEntries :
            e >= t /\ \A f \in TempoEntries : f >= t => e <= f
    ELSE tempi[Len(tempi)]

\* The smallest index whose entry is >= t, or the last index.
IndexOfNearestAtOrAbove(t) ==
    IF \E i \in 0..(Len(tempi) - 1) : tempi[i + 1] >= t
    THEN CHOOSE i \in 0..(Len(tempi) - 1) :
            tempi[i + 1] >= t /\ \A j \in 0..(Len(tempi) - 1) : tempi[j + 1] >= t => i <= j
    ELSE Len(tempi) - 1

\* The marking table of the specification.
TableMarking(t) ==
    IF t <= 24 THEN "Larghissimo"
    ELSE IF t <= 40 THEN "Grave"
    ELSE IF t <= 60 THEN "Largo"
    ELSE IF t <= 66 THEN "Larghetto"
    ELSE IF t <= 76 THEN "Adagio"
    ELSE IF t <= 108 THEN "Andante"
    ELSE IF t <= 120 THEN "Moderato"
    ELSE IF t <= 168 THEN "Allegro"
    ELSE IF t <= 200 THEN "Presto"
    ELSE "Prestissimo"

\* C1: in Maelzel mode the current tempo is an entry of the tempo table (so
\* it lies in 40..208); in Precise mode it lies in 20..300.
C1_TempoInRange ==
    /\ mode = "maelzel" =>
          /\ current_tempo \in TempoEntries
          /\ 40 <= current_tempo /\ current_tempo <= 208
    /\ mode = "precise" => 20 <= current_tempo /\ current_tempo <= 300

\* A text above the range was committed in Precise mode during playback and
\* was clamped to 300.
C1_Witness ==
    /\ mode = "precise" /\ playing
    /\ current_tempo = 300
    /\ timer_interval # 200

\* C2: a switch from Precise to Maelzel sets the tempo to the smallest table
\* entry >= the tempo before the switch, or to 208 when there is none: a
\* table entry is kept, a tempo below 40 becomes 40.
C2_SwitchToMaelzelSnaps ==
    [][(mode = "precise" /\ mode' = "maelzel") =>
          /\ current_tempo' = NearestAtOrAbove(current_tempo)
          /\ current_tempo \in TempoEntries => current_tempo' = current_tempo
          /\ current_tempo < 40 => current_tempo' = 40
          /\ current_tempo > 208 => current_tempo' = 208]_vars

\* Playback was started at tempo 300, which only Precise mode gives, and the
\* mode was then switched to Maelzel while playing: the tempo is now 208.
C2_Witness ==
    /\ mode = "maelzel" /\ playing /\ slider_enabled
    /\ timer_interval = 200
    /\ current_tempo = 208

\* C3: a switch from Maelzel to Precise leaves the current tempo unchanged.
C3_SwitchToPreciseKeepsTempo ==
    [][(mode = "maelzel" /\ mode' = "precise") =>
          current_tempo' = current_tempo]_vars

\* Precise mode at tempo 63 while playing: 63 is a table entry that is not
\* among the typed values, so it was carried over from Maelzel mode.
C3_Witness ==
    /\ mode = "precise" /\ playing
    /\ current_tempo = 63
    /\ 63 \notin TypedValues

\* C4: the marking shown is the one of the specification's table, with the
\* specification's spelling.
C4_MarkingIsTableMarking ==
    traditional_marking = TableMarking(current_tempo)

\* C5: a start sets the interval to 60000 integer-divided by the tempo at that
\* moment (120 -> 500, 40 -> 1500, 60 -> 1000); while playback stays running
\* no step changes the interval.
C5_IntervalSetAtStartOnly ==
    [][/\ (~playing /\ playing') =>
             /\ timer_interval' = 60000 \div current_tempo
             /\ current_tempo = 120 => timer_interval' = 500
             /\ current_tempo = 40 => timer_interval' = 1500
             /\ current_tempo = 60 => timer_interval' = 1000
       /\ (playing /\ playing') => timer_interval' = timer_interval]_vars

\* Started at tempo 40 (interval 1500), and the tempo was changed to 120
\* during playback: the interval is still 1500.
C5_Witness ==
    /\ playing
    /\ current_tempo = 120
    /\ timer_interval = 1500

\* C6: while the metronome is playing the slider is disabled.
C6_SliderDisabledWhilePlaying ==
    playing => ~slider_enabled

\* C7: fixup(str(n)) is "20" for n < 20, "300" for n > 300 and str(n)
\* otherwise; fixup("") is "20"; the loop replaces the text at most once.
C7_FixupClampLaw ==
    fx_pc = "returned" =>
        /\ fx_result.s = IF fx_empty THEN <<"2", "0">>
                         ELSE IF fx_n < 20 THEN <<"2", "0">>
                         ELSE IF fx_n > 300 THEN <<"3", "0", "0">>
                         ELSE Str(fx_n)
        /\ fx_result.replacements <= 1

\* fixup returned for a text above the range, after one replacement.
C7_Witness ==
    /\ fx_pc = "returned"
    /\ fx_n = 301
    /\ fx_result.replacements = 1

\* C8 as claimed: playback starts Stopped; the timer runs exactly when
\* playing is true; a press in Stopped starts the timer, a press in Running
\* stops it; a firing of the timer plays the sound once, and the sound is
\* played only in the Running state, by a firing of the timer.
C8_PlaybackStateMachine ==
    /\ ~playing
    /\ [](playing <=> timer_state = "Running")
    /\ [][/\ StartStop => /\ playing' = ~playing
                          /\ timer_state' = IF playing THEN "NotRunning" ELSE "Running"
                          /\ plays' = plays
          /\ (\E position \in {"start", "moved"} : Tick(position)) =>
                plays' = plays + 1
          /\ plays' # plays =>
                /\ playing /\ timer_state = "Running"
                /\ playing' /\ timer_state' = "Running"
                /\ plays' = plays + 1]_vars

\* C8 as amended: as above, except that the sound is also played once
\* inside the start handler when the time line is restarted away from its
\* start position.  Every step that plays the sound plays it once and ends
\* in Running with the timer running; a step that begins and ends Stopped
\* plays nothing, nor does a stop; a step from Running that is no stop
\* plays at most once.
C8_PlaybackWithRestartTick ==
    /\ ~playing
    /\ [](playing <=> timer_state = "Running")
    /\ [][/\ StartStop => /\ playing' = ~playing
                          /\ timer_state' = IF playing THEN "NotRunning" ELSE "Running"
                          /\ playing => plays' = plays
                          /\ (~playing /\ timer_position = "start") => plays' = plays
                          /\ (~playing /\ timer_position # "start") => plays' = plays + 1
          /\ (\E position \in {"start", "moved"} : Tick(position)) =>
                plays' = plays + 1
          /\ plays' # plays =>
                /\ playing' /\ timer_state' = "Running"
                /\ plays' = plays + 1
          /\ (~playing /\ ~playing') => plays' = plays
          /\ ~playing' => plays' = plays]_vars

\* Playing after a restart that played the sound itself: the timer's firings
\* alone count up to MaxPlays, and the time line is back at its start.
C8_Witness ==
    /\ playing /\ timer_state = "Running"
    /\ plays = MaxPlays + 1
    /\ timer_position = "start"
    /\ start_stop_button = "Stop"

\* C9: the tempo indicator shows the current tempo, the marking label the
\* marking of the current tempo, the slider is at the smallest index whose
\* entry is >= the current tempo (or at the last index), and in Maelzel mode
\* the text field holds the decimal text of the current tempo.
C9_DisplaysInSync ==
    /\ tempo_indicator = Str(current_tempo)
    /\ traditional_marking = get_marking_of(current_tempo)
    /\ slider_value = IndexOfNearestAtOrAbove(current_tempo)
    /\ slider_value = IF current_tempo > 208 THEN 38 ELSE slider_value
    /\ mode = "maelzel" => tempo_input_text = Str(current_tempo)

\* Precise mode at a tempo above every entry, committed with a leading zero:
\* the slider is at the last index and the text is not the decimal text.
C9_Witness ==
    /\ mode = "precise"
    /\ current_tempo = 225
    /\ slider_value = 38
    /\ tempo_input_text = <<"0", "2", "2", "5">>

\* C10: in Precise mode the slider is disabled, and the text field is enabled
\* exactly in Precise mode.
C10_SliderEnabledOnlyInMaelzel ==
    /\ mode = "precise" => ~slider_enabled
    /\ tempo_input_enabled <=> mode = "precise"

====
